---- MODULE Spec2Model ----
(***************************************************************************)
(* A model of the aw-core datastore backends:                              *)
(*   PeeweeStorage  (src/aw_datastore/storages/peewee.py,  PostgreSQL)     *)
(*   MongoDBStorage (src/aw_datastore/storages/mongodb.py, MongoDB)        *)
(* A storage is asked for over one of the two backends (sid).  Only the    *)
(* PeeweeStorage can be constructed: MongoDBStorage leaves abstract        *)
(* methods of AbstractStorage undefined, so its construction raises and    *)
(* its methods, modelled from their text, are never called.  Every call of *)
(* the storage interface (abstract.py) on a constructed storage is one     *)
(* action, except where callers run side by side (ConcSpec, DelSpec):      *)
(* there a call is taken statement by statement.                           *)
(*                                                                         *)
(* Time is counted in seconds.  Timestamps are instants (already in UTC),  *)
(* durations are numbers of seconds; both are drawn from a grid of whole   *)
(* days so that the 24 hour window of _where_range is exact.               *)
(***************************************************************************)
EXTENDS Integers, Sequences, FiniteSets, TLC

VARIABLES
    sid,             \* the backend of the storage: "peewee" or "mongodb"
    ret,             \* the last call and what it returned or raised
    pBuckets,        \* peewee: rows of table "buckets"
    pEvents,         \* peewee: rows of table "events"
    bucket_keys,     \* peewee: self.bucket_keys, bucket id -> key
    pBucketSeq,      \* peewee: last value of the serial behind BucketModel.key
    pEventSeq,       \* peewee: last value of the serial behind EventModel.id
    mMetadata,       \* mongo: bucket id -> document of collection "<id>.metadata"
    mEvents,         \* mongo: bucket id -> documents of collection "<id>.events"
    mOidSeq,         \* mongo: last ObjectId generated
    cached_buckets,  \* self.cached_buckets (assigned by mongo's buckets() only)
    last_cached_ms,  \* self.last_cached_ms (assigned by mongo's buckets() only)
    now,             \* time.time(), in seconds
    pc,              \* concurrent callers: the position of each in its call
    fetched,         \* concurrent callers: what each holds between its steps
    pUsers,          \* peewee: rows of table "users"
    pUserSeq,        \* peewee: last value of the serial behind UserModel.id
    mUsers,          \* mongo: documents of collection "users"
    mUserOid,        \* mongo: last ObjectId generated for collection "users"
    pReports,        \* peewee: rows of table "reports"
    pReportSeq,      \* peewee: last value of the serial behind ReportModel.id
    changed_at       \* history: bucket id -> time.time() of the last
                     \* create_bucket / delete_bucket that went through

pvars == <<pBuckets, pEvents, bucket_keys, pBucketSeq, pEventSeq>>
mdata == <<mMetadata, mEvents, mOidSeq>>
mcache == <<cached_buckets, last_cached_ms>>
mvars == <<mMetadata, mEvents, mOidSeq, cached_buckets, last_cached_ms>>
cvars == <<pc, fetched>>
avars == <<pUsers, pUserSeq, mUsers, mUserOid, pReports, pReportSeq>>
vars == <<sid, ret, pBuckets, pEvents, bucket_keys, pBucketSeq, pEventSeq,
          mMetadata, mEvents, mOidSeq, cached_buckets, last_cached_ms, now,
          pc, fetched, pUsers, pUserSeq, mUsers, mUserOid, pReports,
          pReportSeq, changed_at>>

(***************************************************************************)
(* Bounds and input domains                                                *)
(***************************************************************************)
\* timestamps and durations are 0..MaxTick days
MaxTick == 2
\* event ids (peewee) and ObjectIds (mongo) handed out
MaxEvents == 2
\* bucket keys handed out by the serial of BucketModel.key
MaxKeys == 2
\* length of the list given to insert_many
MaxBatch == 2
\* the clock advances at most MaxClock times
MaxClock == 2
\* user ids and report ids handed out by the serials of UserModel.id and
\* ReportModel.id, and ObjectIds generated for the users collection
MaxSaves == 3
\* bucket keys handed out by the serial of BucketModel.key where the callers
\* interleave
MaxRows == 3

BucketIds == {"b1", "b2"}
\* the bucket directory is also exercised with an id that buckets() of the
\* mongo backend treats as a name of its own
DirBucketIds == BucketIds \cup {"user"}
Callers == {"c1", "c2"}
Times == {86400 * k : k \in 0..MaxTick}
Durations == {86400 * k : k \in 0..MaxTick}
DataVals == {[app |-> "a"], [app |-> "b"]}

\* Python's None for Event.id: the serial and ObjectIds start at 1
NoId == 0
\* Python's None for starttime / endtime
NoTime == -1
\* Python's None for cached_buckets and for a missing result
None == "None"

EventIds == 1..MaxEvents
\* Event(id, timestamp, duration, data) as the callers build it
Events == [id : {NoId} \cup EventIds, timestamp : Times, duration : Durations,
           data : DataVals]
\* the events given to the writing calls: a new event at every timestamp,
\* and for every id an event at timestamp 0 that carries it; the duration
\* and the payload vary along with the timestamp
DataFor(t) == IF (t \div 86400) % 2 = 0 THEN [app |-> "a"] ELSE [app |-> "b"]
WEvents == {e \in Events : /\ e.duration = 86400 * MaxTick - e.timestamp
                           /\ e.data = DataFor(e.timestamp)
                           /\ e.id = NoId \/ e.timestamp = 0}
NewWEvents == {e \in WEvents : e.id = NoId}
\* the events given to replace
ReplaceEvents == {e \in NewWEvents : e.timestamp = 86400}
\* the events given to insert_many: a new one, and one that carries id 1
BatchEvents == {e \in WEvents : e.timestamp = 0 /\ e.id \in {NoId, 1}}
\* the events stored before a range query: every interval of the grid that
\* ends within MaxTick days
QEvents == {e \in Events : /\ e.id = NoId
                           /\ e.timestamp + e.duration <= 86400 * MaxTick
                           /\ e.data = DataFor(e.timestamp)}
\* the limits and bounds given to get_events / get_eventcount
Limits == -1..MaxEvents
Bounds == {NoTime} \cup Times
\* create_bucket(bucket_id, type_id, client, hostname, created, name)
BucketArgs == [type : {"afk"}, client : {"aw-watcher"}, hostname : {"host"},
               created : {"2021-06-20"}, name : {None}]

EmptyFn == [x \in {} |-> 0]
Put(f, k, v) == [x \in DOMAIN f \cup {k} |-> IF x = k THEN v ELSE f[x]]
Drop(f, k) == [x \in DOMAIN f \ {k} |-> f[x]]
Min(a, b) == IF a <= b THEN a ELSE b
Max(a, b) == IF a >= b THEN a ELSE b

\* every enumeration of the finite set S as a sequence
RECURSIVE Perms(_)
Perms(S) ==
    IF S = {} THEN {<<>>}
    ELSE UNION {{<<x>> \o p : p \in Perms(S \ {x})} : x \in S}
\* the first n elements of s
Take(s, n) == SubSeq(s, 1, Min(n, Len(s)))

(***************************************************************************)
(* Conversions                                                             *)
(***************************************************************************)
\* json.dumps(event.data): the text, as its sequence of tokens
json_dumps(d) == <<"{", "app", ":", d.app, "}">>
\* json.loads(self.datastr)
json_loads(s) == [app |-> s[4]]
\* f"S {event.duration.total_seconds()}": the text given to the IntervalField
duration_str(d) == <<"S", d>>
\* PostgreSQL reading that text as an interval (a bare number is seconds)
interval_in(s) == s[2]

\* EventModel.from_event(bucket_key, event): the model instance
from_event(bucket_key, event) ==
    [bucket |-> bucket_key, id |-> event.id, timestamp |-> event.timestamp,
     duration |-> duration_str(event.duration),
     datastr |-> json_dumps(event.data)]
\* the row the database keeps of a model instance
RowOf(m, id) ==
    [id |-> id, bucket |-> m.bucket, timestamp |-> m.timestamp,
     duration |-> interval_in(m.duration), datastr |-> m.datastr]
\* Event(**EventModel.json(row))
EventModel_json(row) ==
    [id |-> row.id, timestamp |-> row.timestamp, duration |-> row.duration,
     data |-> json_loads(row.datastr)]

\* MongoDBStorage._transform_event(event.copy()): the document to store,
\* its duration as total_seconds()
transform_event(event) ==
    [id |-> event.id, timestamp |-> event.timestamp,
     duration |-> event.duration, data |-> event.data]
\* the stored document under its generated _id.  The "id" key of the copy is
\* stored with it, and every reader overwrites it with str(_id) before it
\* looks at the document: the model leaves it out.
DocOf(d, oid) ==
    [oid |-> oid, timestamp |-> d.timestamp, duration |-> d.duration,
     data |-> d.data]
\* str(event.pop("_id")): the id as mongo's readers return it
oid_str(oid) == <<"ObjectId", oid>>
\* Event(**doc) after event["id"] = str(event.pop("_id"))
EventOfDoc(doc) ==
    [id |-> oid_str(doc.oid), timestamp |-> doc.timestamp,
     duration |-> doc.duration, data |-> doc.data]


(***************************************************************************)
(* Initial state: right after the attempt to construct the storage          *)
(***************************************************************************)
\* time.time() at construction: far later than the cache window
StartTime == 6000 * 3

\* the abstract methods of AbstractStorage that the class of backend s leaves
\* undefined: MongoDBStorage has no get_use_tracker, save_report, get_report
abstractmethods(s) ==
    IF s = "mongodb" THEN {"get_report", "get_use_tracker", "save_report"}
    ELSE {}
\* AbstractStorage(metaclass=ABCMeta): instantiating a class that leaves an
\* abstract method undefined raises TypeError before __init__ runs
construct(s) == IF abstractmethods(s) = {} THEN "ok" ELSE "TypeError"
\* the storage object exists: only then can a method of it be called
Constructed == construct(sid) = "ok"

Init ==
    /\ sid \in {"peewee", "mongodb"}
    /\ ret = [op |-> "init", status |-> construct(sid)]
    /\ pBuckets = {}
    /\ pEvents = {}
    /\ bucket_keys = EmptyFn
    /\ pBucketSeq = 0
    /\ pEventSeq = 0
    /\ mMetadata = EmptyFn
    /\ mEvents = EmptyFn
    /\ mOidSeq = 0
    /\ cached_buckets = None
    /\ last_cached_ms = 0
    /\ now = StartTime
    /\ pc = [c \in Callers |-> "idle"]
    /\ fetched = [c \in Callers |-> None]
    /\ pUsers = {}
    /\ pUserSeq = 0
    /\ mUsers = {}
    /\ mUserOid = 0
    /\ pReports = {}
    /\ pReportSeq = 0
    /\ changed_at = [b \in DirBucketIds |-> StartTime]

\* a call that returns value v / returns nothing / raises error
Returns(call, v) == ret' = call @@ [status |-> "ok", value |-> v]
Done(call) == ret' = call @@ [status |-> "ok"]
Raises(call, error) == ret' = call @@ [status |-> error]

(***************************************************************************)
(* PeeweeStorage                                                           *)
(***************************************************************************)
\* update_bucket_keys: {bucket.id: bucket.key for bucket in buckets}
update_bucket_keys(rows) ==
    [id \in {r.id : r \in rows} |-> (CHOOSE r \in rows : r.id = id).key]

\* BucketModel.json(): "created" is returned empty
BucketModel_json(row) ==
    [id |-> row.id, created |-> "", name |-> row.name, type |-> row.type,
     client |-> row.client, hostname |-> row.hostname]

\* the rows of a bucket: EventModel.bucket == key
RowsOf(rows, key) == {r \in rows : r.bucket = key}

\* a faulty create_bucket on a table without the unique index on id, where
\* the new row takes the place of the old one: C14 tells it from
\* PeeweeCreateBucket
PeeweeCreateBucket_overwrite(b, a) ==
    LET key == pBucketSeq + 1
        row == [key |-> key, id |-> b, created |-> a.created, name |-> a.name,
                type |-> a.type, client |-> a.client, hostname |-> a.hostname]
    IN  /\ pBucketSeq' = key
        /\ pBuckets' = {r \in pBuckets : r.id # b} \cup {row}
        /\ bucket_keys' = update_bucket_keys(pBuckets')
        /\ Done([op |-> "create_bucket", bucket |-> b])
        /\ UNCHANGED <<pEvents, pEventSeq>>

\* create_bucket: INSERT (the serial advances even when the unique index on
\* id refuses the row), then update_bucket_keys
PeeweeCreateBucket(b, a) ==
    LET call == [op |-> "create_bucket", bucket |-> b, args |-> a]
        key == pBucketSeq + 1
        row == [key |-> key, id |-> b, created |-> a.created, name |-> a.name,
                type |-> a.type, client |-> a.client, hostname |-> a.hostname]
    IN  /\ pBucketSeq' = key
        /\ IF \E r \in pBuckets : r.id = b
             THEN /\ Raises(call, "IntegrityError")
                  /\ UNCHANGED <<pBuckets, bucket_keys>>
             ELSE /\ pBuckets' = pBuckets \cup {row}
                  /\ bucket_keys' = update_bucket_keys(pBuckets')
                  /\ Done(call)
        /\ UNCHANGED <<pEvents, pEventSeq>>

\* a faulty delete_bucket that leaves the events of the bucket: C4 tells it
\* from PeeweeDeleteBucket
PeeweeDeleteBucket_keeps_events(b) ==
    LET call == [op |-> "delete_bucket", bucket |-> b]
    IN  IF b \in DOMAIN bucket_keys
          THEN /\ pBuckets' = {r \in pBuckets : r.key # bucket_keys[b]}
               /\ bucket_keys' = update_bucket_keys(pBuckets')
               /\ Done(call)
               /\ UNCHANGED <<pEvents, pBucketSeq, pEventSeq>>
          ELSE Raises(call, "Exception") /\ UNCHANGED pvars

\* delete_bucket: delete the bucket's events, the bucket row, then
\* update_bucket_keys
PeeweeDeleteBucket(b) ==
    LET call == [op |-> "delete_bucket", bucket |-> b]
    IN  IF b \in DOMAIN bucket_keys
          THEN /\ pEvents' = pEvents \ RowsOf(pEvents, bucket_keys[b])
               /\ pBuckets' = {r \in pBuckets : r.key # bucket_keys[b]}
               /\ bucket_keys' = update_bucket_keys(pBuckets')
               /\ Done(call)
               /\ UNCHANGED <<pBucketSeq, pEventSeq>>
          ELSE Raises(call, "Exception") /\ UNCHANGED pvars

\* get_metadata
PeeweeGetMetadata(b) ==
    LET call == [op |-> "get_metadata", bucket |-> b]
    IN  /\ IF b \in DOMAIN bucket_keys
             THEN Returns(call, BucketModel_json(
                            CHOOSE r \in pBuckets : r.key = bucket_keys[b]))
             ELSE Raises(call, "Exception")
        /\ UNCHANGED pvars

\* buckets(): read from the table at every call (the cache is commented out)
peewee_buckets(rows) ==
    [id \in {r.id : r \in rows} |->
        BucketModel_json(CHOOSE r \in rows : r.id = id)]

PeeweeBuckets ==
    /\ Returns([op |-> "buckets"], peewee_buckets(pBuckets))
    /\ UNCHANGED pvars

\* Model.save() of an instance: INSERT when its id is None, else
\* UPDATE events SET bucket, timestamp, duration, datastr WHERE id = <id>
SaveInsert(rows, m, id) == rows \cup {RowOf(m, id)}
SaveUpdate(rows, m) ==
    {IF r.id = m.id THEN RowOf(m, m.id) ELSE r : r \in rows}

\* insert_one on an existing bucket: the rows and the serial after it
insert_one_rows(rows, seq, key, event) ==
    LET e == from_event(key, event)
    IN  IF e.id = NoId THEN SaveInsert(rows, e, seq + 1)
                       ELSE SaveUpdate(rows, e)
insert_one_seq(seq, event) == IF event.id = NoId THEN seq + 1 ELSE seq
\* event.id = e.id; return event
insert_one_value(seq, event) ==
    IF event.id = NoId THEN [event EXCEPT !.id = seq + 1] ELSE event

\* the foreign key of EventModel.bucket: the INSERT, or the UPDATE of the row
\* with that id, is refused when no bucket row has the key
fk_refuses(buckets, rows, key, event) ==
    /\ \A r \in buckets : r.key # key
    /\ event.id = NoId \/ \E r \in rows : r.id = event.id

\* insert_one: self.bucket_keys[bucket_id] is the map as update_bucket_keys
\* last built it; a refused INSERT has taken its value of the serial
PeeweeInsertOne(b, event) ==
    LET call == [op |-> "insert_one", bucket |-> b, event |-> event]
    IN  IF b \notin DOMAIN bucket_keys
          THEN Raises(call, "KeyError") /\ UNCHANGED pvars
        ELSE IF fk_refuses(pBuckets, pEvents, bucket_keys[b], event)
          THEN /\ pEventSeq' = insert_one_seq(pEventSeq, event)
               /\ Raises(call, "IntegrityError")
               /\ UNCHANGED <<pBuckets, pEvents, bucket_keys, pBucketSeq>>
          ELSE /\ pEvents' = insert_one_rows(pEvents, pEventSeq,
                                             bucket_keys[b], event)
               /\ pEventSeq' = insert_one_seq(pEventSeq, event)
               /\ Returns(call, insert_one_value(pEventSeq, event))
               /\ UNCHANGED <<pBuckets, bucket_keys, pBucketSeq>>

\* chunks(ls, n): successive n-sized chunks of ls
chunks(ls, n) ==
    [i \in 1..((Len(ls) + n - 1) \div n) |->
        SubSeq(ls, (i - 1) * n + 1, Min(i * n, Len(ls)))]
\* the chunk size of insert_many
ChunkSize == 100

\* the events of a list that carry an id / that carry none, in order
events_updates(events) == SelectSeq(events, LAMBDA e : e.id # NoId)
events_inserts(events) == SelectSeq(events, LAMBDA e : e.id = NoId)

\* for e in events_updates: self.insert_one(bucket_id, e)
RECURSIVE apply_updates(_, _, _)
apply_updates(rows, key, events) ==
    IF events = <<>> THEN rows
    ELSE apply_updates(SaveUpdate(rows, from_event(key, Head(events))),
                       key, Tail(events))
\* EventModel.insert_many(chunk).execute(): one row per dict, ids from the serial
RECURSIVE insert_chunk(_, _, _, _)
insert_chunk(rows, seq, key, chunk) ==
    IF chunk = <<>> THEN rows
    ELSE insert_chunk(
           SaveInsert(rows, from_event(key, Head(chunk)), seq + 1),
           seq + 1, key, Tail(chunk))
\* for chunk in chunks(events_dictlist, 100): insert the chunk
RECURSIVE insert_chunks(_, _, _, _)
insert_chunks(rows, seq, key, cs) ==
    IF cs = <<>> THEN rows
    ELSE insert_chunks(insert_chunk(rows, seq, key, Head(cs)),
                       seq + Len(Head(cs)), key, Tail(cs))
\* insert_many on an existing bucket: the rows after it
insert_many_rows(rows, seq, key, events) ==
    insert_chunks(apply_updates(rows, key, events_updates(events)), seq, key,
                  chunks(events_inserts(events), ChunkSize))

\* a data payload json.dumps cannot encode (a set, say): TypeError
Unserializable == [app |-> "set()"]
serializable(d) == d # Unserializable
\* the updates insert_many has applied when json.dumps raises: those before
\* the first update it cannot encode, all of them when it is an event
\* without id that cannot be encoded (the list of dicts is built after the
\* updates)
first_bad(events) ==
    LET bad == {i \in 1..Len(events) : ~serializable(events[i].data)}
    IN  IF bad = {} THEN 0 ELSE CHOOSE i \in bad : \A j \in bad : i <= j
updates_done(events) ==
    LET u == events_updates(events)
    IN  IF first_bad(u) = 0 THEN u ELSE SubSeq(u, 1, first_bad(u) - 1)
\* insert_many on an existing bucket when json.dumps raises: the rows after
insert_many_failed_rows(rows, key, events) ==
    apply_updates(rows, key, updates_done(events))

\* insert_many with a key that no bucket row has: the updates that fail, in
\* order (json.dumps raises, or the foreign key refuses the UPDATE of an
\* existing row), then the list of dicts, then the first chunk's INSERT
stale_failing_updates(rows, events) ==
    LET u == events_updates(events)
    IN  {i \in 1..Len(u) : \/ ~serializable(u[i].data)
                           \/ \E r \in rows : r.id = u[i].id}
insert_many_stale_error(rows, events) ==
    LET u == events_updates(events)
        f == stale_failing_updates(rows, events)
        i0 == CHOOSE i \in f : \A j \in f : i <= j
    IN  IF f # {}
          THEN IF serializable(u[i0].data) THEN "IntegrityError"
                                           ELSE "TypeError"
        ELSE IF first_bad(events_inserts(events)) # 0 THEN "TypeError"
        ELSE IF events_inserts(events) # <<>> THEN "IntegrityError"
        ELSE "ok"
\* the serial after it: the refused INSERT of the first chunk has taken a
\* value for each of its rows
insert_many_stale_seq(seq, rows, events) ==
    IF /\ stale_failing_updates(rows, events) = {}
       /\ insert_many_stale_error(rows, events) = "IntegrityError"
      THEN seq + Len(chunks(events_inserts(events), ChunkSize)[1])
      ELSE seq

\* insert_many: self.bucket_keys[bucket_id] is read by the first update and
\* by the first event without id, so an empty list passes on any bucket
PeeweeInsertMany(b, events) ==
    LET call == [op |-> "insert_many", bucket |-> b, events |-> events]
    IN  IF events = <<>>
          THEN Done(call) /\ UNCHANGED pvars
        ELSE IF b \notin DOMAIN bucket_keys
          THEN Raises(call, "KeyError") /\ UNCHANGED pvars
        ELSE IF \A r \in pBuckets : r.key # bucket_keys[b]
          THEN /\ pEventSeq' = insert_many_stale_seq(pEventSeq, pEvents,
                                                     events)
               /\ ret' = call @@
                           [status |-> insert_many_stale_error(pEvents, events)]
               /\ UNCHANGED <<pBuckets, pEvents, bucket_keys, pBucketSeq>>
        ELSE IF first_bad(events) # 0
          THEN /\ pEvents' = insert_many_failed_rows(pEvents, bucket_keys[b],
                                                     events)
               /\ Raises(call, "TypeError")
               /\ UNCHANGED <<pBuckets, bucket_keys, pBucketSeq, pEventSeq>>
          ELSE /\ pEvents' = insert_many_rows(pEvents, pEventSeq,
                                              bucket_keys[b], events)
               /\ pEventSeq' = pEventSeq + Len(events_inserts(events))
               /\ Done(call)
               /\ UNCHANGED <<pBuckets, bucket_keys, pBucketSeq>>

\* _get_event: the row with that id in that bucket (none: DoesNotExist -> None)
get_event_row(rows, key, event_id) ==
    {r \in RowsOf(rows, key) : r.id = event_id}

\* get_event: the event, or None
peewee_get_event(rows, key, event_id) ==
    {EventModel_json(r) : r \in get_event_row(rows, key, event_id)}

PeeweeGetEvent(b, event_id) ==
    LET call == [op |-> "get_event", bucket |-> b, event_id |-> event_id]
    IN  /\ IF b \notin DOMAIN bucket_keys
             THEN Raises(call, "KeyError")
             ELSE Returns(call, peewee_get_event(pEvents, bucket_keys[b],
                                                 event_id))
        /\ UNCHANGED pvars

\* _get_last: the first row of the bucket by timestamp descending; rows of
\* equal timestamp come in the order the database chooses
get_last(rows, key) ==
    {r \in RowsOf(rows, key) :
        \A o \in RowsOf(rows, key) : o.timestamp <= r.timestamp}

\* a faulty overwrite that leaves the duration of the row as it was: C7
\* tells it from overwrite_save
overwrite_save_keeps_duration(rows, e, event) ==
    SaveUpdate(rows, [id |-> e.id, bucket |-> e.bucket,
                      timestamp |-> event.timestamp,
                      duration |-> duration_str(e.duration),
                      datastr |-> json_dumps(event.data)])

\* replace_last and replace once they hold row e: overwrite its fields, save
overwrite_save(rows, e, event) ==
    SaveUpdate(rows, [id |-> e.id, bucket |-> e.bucket,
                      timestamp |-> event.timestamp,
                      duration |-> duration_str(event.duration),
                      datastr |-> json_dumps(event.data)])

\* a faulty replace_last that stores the event when the bucket is empty:
\* C12 tells it from PeeweeReplaceLast
PeeweeReplaceLast_or_insert(b, event) ==
    LET call == [op |-> "replace_last", bucket |-> b, event |-> event]
    IN  IF b \notin DOMAIN bucket_keys
          THEN Raises(call, "KeyError") /\ UNCHANGED pvars
          ELSE /\ pEvents' = SaveInsert(pEvents,
                                        from_event(bucket_keys[b], event), 0)
               /\ Returns(call, event)
               /\ UNCHANGED <<pBuckets, bucket_keys, pBucketSeq, pEventSeq>>

PeeweeReplaceLast(b, event) ==
    LET call == [op |-> "replace_last", bucket |-> b, event |-> event]
    IN  IF b \notin DOMAIN bucket_keys
          THEN Raises(call, "KeyError") /\ UNCHANGED pvars
        ELSE IF get_last(pEvents, bucket_keys[b]) = {}
          THEN Raises(call, "DoesNotExist") /\ UNCHANGED pvars
          ELSE \E e \in get_last(pEvents, bucket_keys[b]) :
                 /\ pEvents' = overwrite_save(pEvents, e, event)
                 /\ Returns(call, [event EXCEPT !.id = e.id])
                 /\ UNCHANGED <<pBuckets, bucket_keys, pBucketSeq, pEventSeq>>

\* replace: _get_event returns None for a missing event, and the first
\* assignment to it raises AttributeError
PeeweeReplace(b, event_id, event) ==
    LET call == [op |-> "replace", bucket |-> b, event_id |-> event_id,
                 event |-> event]
    IN  IF b \notin DOMAIN bucket_keys
          THEN Raises(call, "KeyError") /\ UNCHANGED pvars
        ELSE IF get_event_row(pEvents, bucket_keys[b], event_id) = {}
          THEN Raises(call, "AttributeError") /\ UNCHANGED pvars
          ELSE \E e \in get_event_row(pEvents, bucket_keys[b], event_id) :
                 /\ pEvents' = overwrite_save(pEvents, e, event)
                 /\ Returns(call, [event EXCEPT !.id = e.id])
                 /\ UNCHANGED <<pBuckets, bucket_keys, pBucketSeq, pEventSeq>>

\* a faulty delete that looks for the id in every bucket: C13 tells it
\* from PeeweeDelete
PeeweeDelete_any_bucket(b, event_id) ==
    LET call == [op |-> "delete", bucket |-> b, event_id |-> event_id]
        gone == {r \in pEvents : r.id = event_id}
    IN  /\ pEvents' = pEvents \ gone
        /\ Returns(call, Cardinality(gone))
        /\ UNCHANGED <<pBuckets, bucket_keys, pBucketSeq, pEventSeq>>

\* delete: the number of rows deleted
PeeweeDelete(b, event_id) ==
    LET call == [op |-> "delete", bucket |-> b, event_id |-> event_id]
    IN  IF b \notin DOMAIN bucket_keys
          THEN Raises(call, "KeyError") /\ UNCHANGED pvars
          ELSE LET gone == get_event_row(pEvents, bucket_keys[b], event_id)
               IN  /\ pEvents' = pEvents \ gone
                   /\ Returns(call, Cardinality(gone))
                   /\ UNCHANGED <<pBuckets, bucket_keys, pBucketSeq, pEventSeq>>

\* timedelta(hours=24), in seconds
Hours24 == 24 * 3600

\* _where_range
where_range(rows, starttime, endtime) ==
    {r \in rows :
        /\ starttime # NoTime =>
              /\ starttime - Hours24 <= r.timestamp
              /\ starttime <= r.timestamp + r.duration
        /\ endtime # NoTime => r.timestamp <= endtime}

\* a faulty order, ascending: C9 tells it from order_by_timestamp_desc
order_by_timestamp_asc(rows) ==
    {s \in Perms(rows) :
        \A i \in 1..(Len(s) - 1) : s[i].timestamp <= s[i + 1].timestamp}

\* ORDER BY timestamp DESC / sort([("timestamp", -1)]): rows of equal
\* timestamp come in any order
order_by_timestamp_desc(rows) ==
    {s \in Perms(rows) :
        \A i \in 1..(Len(s) - 1) : s[i].timestamp >= s[i + 1].timestamp}

\* q.limit(limit) for limit > 0
apply_limit(s, limit) == IF limit > 0 THEN Take(s, limit) ELSE s

\* a faulty trim that returns the event as it is stored: C2 tells it from
\* trim
trim_nothing(e, starttime, endtime) == e

\* get_events: trim an event that is out of range
trim(e, starttime, endtime) ==
    LET e1 == IF starttime # NoTime /\ e.timestamp < starttime
                THEN [e EXCEPT !.timestamp = starttime,
                               !.duration = (e.timestamp + e.duration) - starttime]
                ELSE e
    IN  IF endtime # NoTime /\ e1.timestamp + e1.duration > endtime
          THEN [e1 EXCEPT !.duration = endtime - e1.timestamp]
          ELSE e1

\* get_events on an existing bucket: the lists it can return
peewee_get_events(rows, key, limit, starttime, endtime) ==
    IF limit = 0 THEN {<<>>}
    ELSE {[i \in 1..Len(s) |-> trim(EventModel_json(s[i]), starttime, endtime)] :
            s \in {apply_limit(o, limit) :
                     o \in order_by_timestamp_desc(
                        where_range(RowsOf(rows, key), starttime, endtime))}}

PeeweeGetEvents(b, limit, starttime, endtime) ==
    LET call == [op |-> "get_events", bucket |-> b, limit |-> limit,
                 starttime |-> starttime, endtime |-> endtime]
    IN  /\ IF limit = 0
             THEN Returns(call, <<>>)
           ELSE IF b \notin DOMAIN bucket_keys
             THEN Raises(call, "KeyError")
             ELSE \E v \in peewee_get_events(pEvents, bucket_keys[b], limit,
                                             starttime, endtime) :
                    Returns(call, v)
        /\ UNCHANGED pvars

\* a faulty count that leaves the range out: C10 tells it from
\* peewee_get_eventcount
peewee_get_eventcount_unfiltered(rows, key, starttime, endtime) ==
    Cardinality(RowsOf(rows, key))

\* get_eventcount on an existing bucket
peewee_get_eventcount(rows, key, starttime, endtime) ==
    Cardinality(where_range(RowsOf(rows, key), starttime, endtime))

PeeweeGetEventcount(b, starttime, endtime) ==
    LET call == [op |-> "get_eventcount", bucket |-> b,
                 starttime |-> starttime, endtime |-> endtime]
    IN  /\ IF b \notin DOMAIN bucket_keys
             THEN Raises(call, "KeyError")
             ELSE Returns(call, peewee_get_eventcount(pEvents, bucket_keys[b],
                                                      starttime, endtime))
        /\ UNCHANGED pvars

(***************************************************************************)
(* MongoDBStorage                                                          *)
(***************************************************************************)
\* the documents of collection "<bucket>.events" (none when it does not exist)
EventsColl(coll, b) == IF b \in DOMAIN coll THEN coll[b] ELSE {}

\* create_bucket: insert_one of the document with _id "metadata"
MongoCreateBucket(b, a) ==
    LET call == [op |-> "create_bucket", bucket |-> b, args |-> a]
        name == IF a.name = None THEN b ELSE a.name
        metadata == [id |-> b, name |-> name, type |-> a.type,
                     client |-> a.client, hostname |-> a.hostname,
                     created |-> a.created]
    IN  IF b \in DOMAIN mMetadata
          THEN Raises(call, "DuplicateKeyError") /\ UNCHANGED mvars
          ELSE /\ mMetadata' = Put(mMetadata, b, metadata)
               /\ Done(call)
               /\ UNCHANGED <<mEvents, mOidSeq, mcache>>

\* delete_bucket: drop "<id>.events" and "<id>.metadata"
MongoDeleteBucket(b) ==
    LET call == [op |-> "delete_bucket", bucket |-> b]
    IN  IF b \in DOMAIN mMetadata
          THEN /\ mEvents' = Drop(mEvents, b)
               /\ mMetadata' = Drop(mMetadata, b)
               /\ Done(call)
               /\ UNCHANGED <<mOidSeq, mcache>>
          ELSE Raises(call, "Exception") /\ UNCHANGED mvars

\* get_metadata: find_one({"_id": "metadata"}), or raise
get_metadata(meta, b) == IF b \in DOMAIN meta THEN {meta[b]} ELSE {}

MongoGetMetadata(b) ==
    LET call == [op |-> "get_metadata", bucket |-> b]
    IN  /\ IF get_metadata(mMetadata, b) # {}
             THEN Returns(call, mMetadata[b])
             ELSE Raises(call, "Exception")
        /\ UNCHANGED mvars

\* the time-boxed cache of buckets(): time.time() - self.last_cached_ms < 6000
CacheWindow == 6000

\* buckets() on a stale cache: every collection name up to its last ".",
\* less "system" and "user", then get_metadata of each (a name without
\* metadata is logged and left out)
list_buckets(meta, coll) ==
    LET bucketnames == (DOMAIN meta \cup DOMAIN coll) \ {"system", "user"}
    IN  [b \in {x \in bucketnames : get_metadata(meta, x) # {}} |-> meta[b]]

\* whether buckets() answers from self.cached_buckets
cache_fresh(t, last) == t - last < CacheWindow

MongoBuckets ==
    IF cache_fresh(now, last_cached_ms)
      THEN /\ Returns([op |-> "buckets"], cached_buckets)
           /\ UNCHANGED mvars
      ELSE /\ cached_buckets' = list_buckets(mMetadata, mEvents)
           /\ last_cached_ms' = now
           /\ Returns([op |-> "buckets"], cached_buckets')
           /\ UNCHANGED mdata

\* insert_one: the collection is created by the first insert
mongo_insert(coll, b, event, oid) ==
    Put(coll, b, EventsColl(coll, b) \cup {DocOf(transform_event(event), oid)})

MongoInsertOne(b, event) ==
    LET call == [op |-> "insert_one", bucket |-> b, event |-> event]
    IN  /\ mOidSeq' = mOidSeq + 1
        /\ mEvents' = mongo_insert(mEvents, b, event, mOidSeq')
        /\ Returns(call, [event EXCEPT !.id = mOidSeq'])
        /\ UNCHANGED <<mMetadata, mcache>>

\* insert_many: every event of the list is inserted under a new _id
RECURSIVE mongo_insert_many(_, _, _, _)
mongo_insert_many(coll, b, events, oid) ==
    IF events = <<>> THEN coll
    ELSE mongo_insert_many(mongo_insert(coll, b, Head(events), oid + 1),
                           b, Tail(events), oid + 1)

MongoInsertMany(b, events) ==
    LET call == [op |-> "insert_many", bucket |-> b, events |-> events]
    IN  IF events = <<>>
          THEN Raises(call, "TypeError") /\ UNCHANGED mvars
          ELSE /\ mEvents' = mongo_insert_many(mEvents, b, events, mOidSeq)
               /\ mOidSeq' = mOidSeq + Len(events)
               /\ Done(call)
               /\ UNCHANGED <<mMetadata, mcache>>

\* get_event: find_one({"_id": event_id})
mongo_get_event(coll, b, event_id) ==
    {EventOfDoc(d) : d \in {x \in EventsColl(coll, b) : x.oid = event_id}}

MongoGetEvent(b, event_id) ==
    /\ Returns([op |-> "get_event", bucket |-> b, event_id |-> event_id],
               mongo_get_event(mEvents, b, event_id))
    /\ UNCHANGED mvars

\* find().sort([("timestamp", -1)]).limit(1): the candidates for [0]
mongo_last(coll, b) ==
    {d \in EventsColl(coll, b) :
        \A o \in EventsColl(coll, b) : o.timestamp <= d.timestamp}

\* replace_one({"_id": oid}, doc): the document is replaced, its _id kept
mongo_replace_one(coll, b, oid, event) ==
    IF b \in DOMAIN coll
      THEN [coll EXCEPT ![b] = {IF d.oid = oid
                                  THEN DocOf(transform_event(event), oid)
                                  ELSE d : d \in coll[b]}]
      ELSE coll

\* replace_last: [0] of an empty list raises IndexError; returns nothing
MongoReplaceLast(b, event) ==
    LET call == [op |-> "replace_last", bucket |-> b, event |-> event]
    IN  IF mongo_last(mEvents, b) = {}
          THEN Raises(call, "IndexError") /\ UNCHANGED mvars
          ELSE \E last_event \in mongo_last(mEvents, b) :
                 /\ mEvents' = mongo_replace_one(mEvents, b, last_event.oid,
                                                 event)
                 /\ Done(call)
                 /\ UNCHANGED <<mMetadata, mOidSeq, mcache>>

\* replace: replace_one, then return True whether or not a document matched
MongoReplace(b, event_id, event) ==
    /\ mEvents' = mongo_replace_one(mEvents, b, event_id, event)
    /\ Returns([op |-> "replace", bucket |-> b, event_id |-> event_id,
                event |-> event], TRUE)
    /\ UNCHANGED <<mMetadata, mOidSeq, mcache>>

\* delete: delete_one({"_id": ObjectId(event_id)}); deleted_count >= 1
MongoDelete(b, event_id) ==
    LET gone == {d \in EventsColl(mEvents, b) : d.oid = event_id}
    IN  /\ mEvents' = IF b \in DOMAIN mEvents
                        THEN [mEvents EXCEPT ![b] = mEvents[b] \ gone]
                        ELSE mEvents
        /\ Returns([op |-> "delete", bucket |-> b, event_id |-> event_id],
                   Cardinality(gone) >= 1)
        /\ UNCHANGED <<mMetadata, mOidSeq, mcache>>

\* the query filter of get_events and get_eventcount
query_filter(docs, starttime, endtime) ==
    {d \in docs : /\ starttime # NoTime => d.timestamp >= starttime
                  /\ endtime # NoTime => d.timestamp <= endtime}

\* get_events: the lists it can return (limit < 0 becomes 10**9)
mongo_get_events(coll, b, limit, starttime, endtime) ==
    IF limit = 0 THEN {<<>>}
    ELSE {[i \in 1..Len(s) |-> EventOfDoc(s[i])] :
            s \in {apply_limit(o, limit) :
                     o \in order_by_timestamp_desc(
                        query_filter(EventsColl(coll, b), starttime, endtime))}}

MongoGetEvents(b, limit, starttime, endtime) ==
    /\ \E v \in mongo_get_events(mEvents, b, limit, starttime, endtime) :
          Returns([op |-> "get_events", bucket |-> b, limit |-> limit,
                   starttime |-> starttime, endtime |-> endtime], v)
    /\ UNCHANGED mvars

\* get_eventcount: find(query_filter).count()
mongo_get_eventcount(coll, b, starttime, endtime) ==
    Cardinality(query_filter(EventsColl(coll, b), starttime, endtime))

MongoGetEventcount(b, starttime, endtime) ==
    /\ Returns([op |-> "get_eventcount", bucket |-> b,
                starttime |-> starttime, endtime |-> endtime],
               mongo_get_eventcount(mEvents, b, starttime, endtime))
    /\ UNCHANGED mvars

(***************************************************************************)
(* The calls of the storage interface, dispatched on the backend           *)
(***************************************************************************)
CreateBucket(b, a) ==
    /\ Constructed
    /\ \/ sid = "peewee" /\ pBucketSeq < MaxKeys
          /\ PeeweeCreateBucket(b, a) /\ UNCHANGED mvars
       \/ sid = "mongodb" /\ MongoCreateBucket(b, a) /\ UNCHANGED pvars
    /\ changed_at' = IF ret'.status = "ok"
                       THEN [changed_at EXCEPT ![b] = now] ELSE changed_at
    /\ UNCHANGED <<sid, now, cvars, avars>>

DeleteBucket(b) ==
    /\ Constructed
    /\ \/ sid = "peewee" /\ PeeweeDeleteBucket(b) /\ UNCHANGED mvars
       \/ sid = "mongodb" /\ MongoDeleteBucket(b) /\ UNCHANGED pvars
    /\ changed_at' = IF ret'.status = "ok"
                       THEN [changed_at EXCEPT ![b] = now] ELSE changed_at
    /\ UNCHANGED <<sid, now, cvars, avars>>

GetMetadata(b) ==
    /\ Constructed
    /\ \/ sid = "peewee" /\ PeeweeGetMetadata(b) /\ UNCHANGED mvars
       \/ sid = "mongodb" /\ MongoGetMetadata(b) /\ UNCHANGED pvars
    /\ UNCHANGED <<sid, now, cvars, avars, changed_at>>

Buckets ==
    /\ Constructed
    /\ \/ sid = "peewee" /\ PeeweeBuckets /\ UNCHANGED mvars
       \/ sid = "mongodb" /\ MongoBuckets /\ UNCHANGED pvars
    /\ UNCHANGED <<sid, now, cvars, avars, changed_at>>

InsertOne(b, event) ==
    /\ Constructed
    /\ \/ sid = "peewee" /\ pEventSeq < MaxEvents
          /\ PeeweeInsertOne(b, event) /\ UNCHANGED mvars
       \/ sid = "mongodb" /\ mOidSeq < MaxEvents
          /\ MongoInsertOne(b, event) /\ UNCHANGED pvars
    /\ UNCHANGED <<sid, now, cvars, avars, changed_at>>

InsertMany(b, events) ==
    /\ Constructed
    /\ \/ sid = "peewee"
          /\ \/ pEventSeq + Len(events) <= MaxEvents
             \/ first_bad(events) # 0    \* hands out no id
          /\ PeeweeInsertMany(b, events) /\ UNCHANGED mvars
       \/ sid = "mongodb" /\ mOidSeq + Len(events) <= MaxEvents
          /\ MongoInsertMany(b, events) /\ UNCHANGED pvars
    /\ UNCHANGED <<sid, now, cvars, avars, changed_at>>

ReplaceLast(b, event) ==
    /\ Constructed
    /\ \/ sid = "peewee" /\ PeeweeReplaceLast(b, event) /\ UNCHANGED mvars
       \/ sid = "mongodb" /\ MongoReplaceLast(b, event) /\ UNCHANGED pvars
    /\ UNCHANGED <<sid, now, cvars, avars, changed_at>>

Replace(b, event_id, event) ==
    /\ Constructed
    /\ \/ sid = "peewee" /\ PeeweeReplace(b, event_id, event)
          /\ UNCHANGED mvars
       \/ sid = "mongodb" /\ MongoReplace(b, event_id, event)
          /\ UNCHANGED pvars
    /\ UNCHANGED <<sid, now, cvars, avars, changed_at>>

Delete(b, event_id) ==
    /\ Constructed
    /\ \/ sid = "peewee" /\ PeeweeDelete(b, event_id) /\ UNCHANGED mvars
       \/ sid = "mongodb" /\ MongoDelete(b, event_id) /\ UNCHANGED pvars
    /\ UNCHANGED <<sid, now, cvars, avars, changed_at>>

GetEvent(b, event_id) ==
    /\ Constructed
    /\ \/ sid = "peewee" /\ PeeweeGetEvent(b, event_id) /\ UNCHANGED mvars
       \/ sid = "mongodb" /\ MongoGetEvent(b, event_id) /\ UNCHANGED pvars
    /\ UNCHANGED <<sid, now, cvars, avars, changed_at>>

GetEvents(b, limit, starttime, endtime) ==
    /\ Constructed
    /\ \/ sid = "peewee" /\ PeeweeGetEvents(b, limit, starttime, endtime)
          /\ UNCHANGED mvars
       \/ sid = "mongodb" /\ MongoGetEvents(b, limit, starttime, endtime)
          /\ UNCHANGED pvars
    /\ UNCHANGED <<sid, now, cvars, avars, changed_at>>

GetEventcount(b, starttime, endtime) ==
    /\ Constructed
    /\ \/ sid = "peewee" /\ PeeweeGetEventcount(b, starttime, endtime)
          /\ UNCHANGED mvars
       \/ sid = "mongodb" /\ MongoGetEventcount(b, starttime, endtime)
          /\ UNCHANGED pvars
    /\ UNCHANGED <<sid, now, cvars, avars, changed_at>>

\* the clock: half a cache window passes
Tick ==
    /\ now < StartTime + MaxClock * (CacheWindow \div 2)
    /\ now' = now + CacheWindow \div 2
    /\ UNCHANGED <<sid, ret, pvars, mvars, cvars, avars, changed_at>>

\* the lists given to insert_many
Batches == UNION {[1..n -> BatchEvents] : n \in 0..MaxBatch}

(***************************************************************************)
(* Spec: the event store, one caller                                       *)
(***************************************************************************)
Next ==
    \/ \E b \in BucketIds, a \in BucketArgs : CreateBucket(b, a)
    \/ \E b \in BucketIds : DeleteBucket(b)
    \/ \E b \in BucketIds, e \in WEvents : InsertOne(b, e)
    \/ \E b \in BucketIds, es \in Batches : InsertMany(b, es)
    \/ \E b \in BucketIds, e \in NewWEvents : ReplaceLast(b, e)
    \/ \E b \in BucketIds, i \in EventIds, e \in ReplaceEvents :
          Replace(b, i, e)
    \/ \E b \in BucketIds, i \in EventIds : Delete(b, i)
    \/ \E b \in BucketIds, i \in EventIds : GetEvent(b, i)

Spec == Init /\ [][Next]_vars

IsQuery(r) == r.op \in {"get_events", "get_eventcount"}

(***************************************************************************)
(* QSpec: range queries.  A run creates buckets, stores events in them in  *)
(* the order of their timestamps, then asks one query (a query changes     *)
(* nothing but ret).                                                       *)
(***************************************************************************)
\* the registered buckets, and the latest timestamp stored
Registered ==
    IF sid = "peewee" THEN {r.id : r \in pBuckets} ELSE DOMAIN mMetadata
StoredTimestamps ==
    IF sid = "peewee" THEN {r.timestamp : r \in pEvents}
    ELSE UNION {{d.timestamp : d \in mEvents[b]} : b \in DOMAIN mEvents}

QNext ==
    /\ ~IsQuery(ret)
    /\ \/ \E b \in BucketIds \ Registered, a \in BucketArgs :
             CreateBucket(b, a)
       \/ \E b \in Registered, e \in QEvents :
             /\ \A t \in StoredTimestamps : t <= e.timestamp
             /\ InsertOne(b, e)
       \/ \E b \in BucketIds, l \in Limits, s \in Bounds, e \in Bounds :
             GetEvents(b, l, s, e)
       \/ \E b \in BucketIds, s \in Bounds, e \in Bounds :
             GetEventcount(b, s, e)

QSpec == Init /\ [][QNext]_vars

(***************************************************************************)
(* DirSpec: the bucket directory.  Buckets are created, filled, described, *)
(* listed and deleted while the clock advances.                            *)
(***************************************************************************)
\* the event stored to fill a bucket
FillEvents == {e \in NewWEvents : e.timestamp = 0}

DNext ==
    \/ \E b \in DirBucketIds, a \in BucketArgs : CreateBucket(b, a)
    \/ \E b \in DirBucketIds : DeleteBucket(b)
    \/ \E b \in Registered \cap BucketIds, e \in FillEvents : InsertOne(b, e)
    \/ \E b \in DirBucketIds : GetMetadata(b)
    \/ Buckets
    \/ Tick

DirSpec == Init /\ [][DNext]_vars

(***************************************************************************)
(* ConcSpec: concurrent callers of replace_last.  Neither backend takes a  *)
(* lock or opens a transaction, so the key read, the SELECT and the UPDATE *)
(* of one call interleave with those of the other callers' replace_last.   *)
(***************************************************************************)
\* the call a caller is in, as ret records it: what the caller keeps for
\* itself (the key it read, the rows it selected) and the history are left
\* out
CallOf(f) == [k \in DOMAIN f \ {"key", "buckets", "had"} |-> f[k]]

\* self.bucket_keys[bucket_id], evaluated for the statement that follows:
\* the caller holds the key from here on; KeyError when the map has no such
\* id
ReadKey(c, f, next) ==
    IF f.bucket \in DOMAIN bucket_keys
      THEN /\ fetched' = [fetched EXCEPT ![c] =
                            [key |-> bucket_keys[f.bucket]] @@ f]
           /\ pc' = [pc EXCEPT ![c] = next]
           /\ UNCHANGED ret
      ELSE /\ Raises(CallOf(f), "KeyError")
           /\ pc' = [pc EXCEPT ![c] = "idle"]
           /\ fetched' = [fetched EXCEPT ![c] = None]

\* the caller's call ends here
Leave(c) ==
    /\ pc' = [pc EXCEPT ![c] = "idle"]
    /\ fetched' = [fetched EXCEPT ![c] = None]

\* replace_last, _get_last: .where(EventModel.bucket ==
\* self.bucket_keys[bucket_id]), the query being built
LastKey(c, b, event) ==
    /\ pc[c] = "idle"
    /\ Constructed
    /\ sid = "peewee"
    /\ ReadKey(c, [op |-> "replace_last", bucket |-> b, event |-> event],
               "last")
    /\ UNCHANGED <<sid, now, pvars, mvars, avars, changed_at>>

\* replace_last, _get_last: .get(), the SELECT; DoesNotExist when no event
\* has the key.  SaveLast is the statement after it
SelectLast(c) ==
    LET f == fetched[c]
    IN  /\ pc[c] = "last"
        /\ Constructed
        /\ sid = "peewee"
        /\ IF get_last(pEvents, f.key) = {}
             THEN Raises(CallOf(f), "DoesNotExist") /\ Leave(c)
             ELSE \E e \in get_last(pEvents, f.key) :
                    /\ fetched' = [fetched EXCEPT ![c] =
                                     [bucket |-> f.bucket, id |-> e.id,
                                      row |-> e, event |-> f.event]]
                    /\ pc' = [pc EXCEPT ![c] = "save"]
                    /\ UNCHANGED ret
        /\ UNCHANGED <<sid, now, pvars, mvars, avars, changed_at>>

\* replace_last, second statement: e.save() / replace_one({"_id": ...}, ...)
PeeweeSaveLast(c) ==
    /\ pEvents' = overwrite_save(pEvents, fetched[c].row, fetched[c].event)
    /\ Returns([op |-> "replace_last", bucket |-> fetched[c].bucket,
                event |-> fetched[c].event],
               [fetched[c].event EXCEPT !.id = fetched[c].id])
    /\ UNCHANGED <<pBuckets, bucket_keys, pBucketSeq, pEventSeq>>

MongoSaveLast(c) ==
    /\ mEvents' = mongo_replace_one(mEvents, fetched[c].bucket, fetched[c].id,
                                    fetched[c].event)
    /\ Done([op |-> "replace_last", bucket |-> fetched[c].bucket,
             event |-> fetched[c].event])
    /\ UNCHANGED <<mMetadata, mOidSeq, mcache>>

SaveLast(c) ==
    /\ pc[c] = "save"
    /\ Constructed
    /\ \/ sid = "peewee" /\ PeeweeSaveLast(c) /\ UNCHANGED mvars
       \/ sid = "mongodb" /\ MongoSaveLast(c) /\ UNCHANGED pvars
    /\ pc' = [pc EXCEPT ![c] = "idle"]
    /\ fetched' = [fetched EXCEPT ![c] = None]
    /\ UNCHANGED <<sid, now, avars, changed_at>>

\* the buckets are created and filled while no replace_last is under way
Quiet == \A c \in Callers : pc[c] = "idle"

CNext ==
    \/ \E b \in BucketIds \ Registered, a \in BucketArgs :
          Quiet /\ CreateBucket(b, a)
    \/ \E b \in Registered, e \in NewWEvents : Quiet /\ InsertOne(b, e)
    \/ \E c \in Callers, b \in BucketIds, e \in NewWEvents :
          LastKey(c, b, e)
    \/ \E c \in Callers : SelectLast(c)
    \/ \E c \in Callers : SaveLast(c)

ConcSpec == Init /\ [][CNext]_vars

(***************************************************************************)
(* What the storage holds, as its readers report it                        *)
(***************************************************************************)
\* the events of bucket b in the given tables / collections, each as
\* get_event and get_events build it from its row or document
events_of(rows, keys, coll, b) ==
    IF sid = "peewee"
      THEN IF b \in DOMAIN keys
             THEN {EventModel_json(r) : r \in RowsOf(rows, keys[b])}
             ELSE {}
      ELSE {EventOfDoc(d) : d \in EventsColl(coll, b)}
BucketEvents(b) == events_of(pEvents, bucket_keys, mEvents, b)
\* the stored events whose owning bucket does not exist
Orphans ==
    IF sid = "peewee"
      THEN {r \in pEvents : \A k \in pBuckets : k.key # r.bucket}
      ELSE UNION {mEvents[b] : b \in DOMAIN mEvents \ DOMAIN mMetadata}
\* the ids of the events replace_last may find in bucket b
LastIds(b) ==
    IF sid = "peewee"
      THEN IF b \in DOMAIN bucket_keys
             THEN {r.id : r \in get_last(pEvents, bucket_keys[b])}
             ELSE {}
      ELSE {d.oid : d \in mongo_last(mEvents, b)}
\* the lists get_events(b, limit, starttime, endtime) can return now
Results(b, limit, starttime, endtime) ==
    IF sid = "peewee"
      THEN IF limit = 0 THEN {<<>>}
           ELSE IF b \in DOMAIN bucket_keys
             THEN peewee_get_events(pEvents, bucket_keys[b], limit,
                                    starttime, endtime)
             ELSE {}
      ELSE mongo_get_events(mEvents, b, limit, starttime, endtime)
\* what get_event(b, event_id) returns now
EventNow(b, event_id) ==
    IF sid = "peewee"
      THEN IF b \in DOMAIN bucket_keys
             THEN peewee_get_event(pEvents, bucket_keys[b], event_id)
             ELSE {}
      ELSE mongo_get_event(mEvents, b, event_id)
\* the overlap test of a query range: either bound may be absent
Overlaps(e, starttime, endtime) ==
    /\ endtime = NoTime \/ e.timestamp <= endtime
    /\ starttime = NoTime \/ e.timestamp + e.duration >= starttime
\* the last call was get_events and it returned
GotEvents == ret.op = "get_events" /\ ret.status = "ok"

(***************************************************************************)
(* Properties                                                              *)
(***************************************************************************)
\* C1: replace_last calls on one bucket are serialized: no call overwrites
\* an event that is not a maximum-timestamp event of its bucket at the
\* moment of its write.  (ConcSpec)
C1_ReplaceLastSerialized ==
    [][\A c \in Callers :
          (pc[c] = "save" /\ pc'[c] = "idle") =>
             fetched[c].id \in LastIds(fetched[c].bucket)]_vars

\* C2: every event get_events returns is a stored event of the bucket
\* clipped to the range: it starts at max(stored start, starttime), ends at
\* min(stored end, endtime), lies inside the range, and keeps the stored id
\* and data.  (QSpec)
C2_ReturnedEventsClipped ==
    GotEvents =>
      \A i \in 1..Len(ret.value) :
         LET r == ret.value[i]
         IN  \E e \in BucketEvents(ret.bucket) :
                /\ r.id = e.id
                /\ r.data = e.data
                /\ r.timestamp = IF ret.starttime = NoTime THEN e.timestamp
                                 ELSE Max(e.timestamp, ret.starttime)
                /\ r.timestamp + r.duration =
                      IF ret.endtime = NoTime THEN e.timestamp + e.duration
                      ELSE Min(e.timestamp + e.duration, ret.endtime)
                /\ ret.starttime # NoTime => r.timestamp >= ret.starttime
                /\ ret.endtime # NoTime =>
                      r.timestamp + r.duration <= ret.endtime

\* C2, the case: get_events has returned an event whose stored interval
\* begins before the range and ends after it
C2_ClippedAtBothEnds ==
    /\ GotEvents
    /\ ret.starttime # NoTime
    /\ ret.endtime # NoTime
    /\ \E i \in 1..Len(ret.value) :
          \E e \in BucketEvents(ret.bucket) :
             /\ e.id = ret.value[i].id
             /\ e.timestamp < ret.starttime
             /\ e.timestamp + e.duration > ret.endtime

\* C3: with limit < 0, get_events returns exactly the events of the bucket
\* that pass the overlap test, whatever their duration.  (QSpec)
C3_ExactlyTheOverlapping ==
    (GotEvents /\ ret.limit < 0) =>
      {ret.value[i].id : i \in 1..Len(ret.value)} =
         {e.id : e \in {x \in BucketEvents(ret.bucket) :
                          Overlaps(x, ret.starttime, ret.endtime)}}

\* C4: a deleted bucket is gone: get_metadata on its id fails, buckets()
\* does not list it, none of its events is stored, and a bucket created
\* again under its id starts with no event.  (DirSpec)
C4_DeletedBucketGone ==
    /\ (ret.op = "get_metadata" /\ ret.status = "ok") =>
          ret.bucket \in Registered
    /\ (ret.op = "buckets" /\ ret.status = "ok") =>
          DOMAIN ret.value \subseteq Registered
    /\ \A b \in BucketIds \ Registered : BucketEvents(b) = {}
    /\ Orphans = {}
    /\ (ret.op = "create_bucket" /\ ret.status = "ok") =>
          BucketEvents(ret.bucket) = {}
\* C4, the case: the one bucket ever created has been given an event and
\* deleted, and buckets() has answered since
C4_ListedAfterDeletion ==
    /\ ret.op = "buckets"
    /\ ret.status = "ok"
    /\ DOMAIN ret.value = {}
    /\ pBucketSeq = 1
    /\ pEventSeq >= 1

\* C5: insert_one on an existing bucket persists the event and assigns it
\* an id, and get_event of the returned id returns an event with the
\* timestamp, the duration and the data of the inserted one.  (Spec)
C5_InsertOneRoundTrip ==
    (ret.op = "insert_one" /\ ret.status = "ok"
        /\ ret.bucket \in Registered) =>
      /\ ret.value.id # NoId
      /\ \E g \in EventNow(ret.bucket, ret.value.id) :
            /\ g.timestamp = ret.event.timestamp
            /\ g.duration = ret.event.duration
            /\ g.data = ret.event.data

\* C6: insert_many adds to an existing bucket as many events as the list holds
\* events without an id; the events that carry an id add none.  (Spec)
C6_InsertManyCount ==
    [][(ret'.op = "insert_many" /\ ret'.status = "ok"
           /\ ret'.bucket \in Registered) =>
          Cardinality(events_of(pEvents', bucket_keys', mEvents',
                                ret'.bucket)) =
             Cardinality(BucketEvents(ret'.bucket))
                + Len(events_inserts(ret'.events))]_vars

\* C7: replace_last on a non-empty bucket gives the timestamp, the duration
\* and the data of the given event to a maximum-timestamp event of the
\* bucket, which keeps its id; the other events of the bucket and their
\* number stay as they were.  (Spec)
C7_ReplaceLastFrame ==
    [][(ret'.op = "replace_last" /\ ret'.status = "ok") =>
          LET before == BucketEvents(ret'.bucket)
              after == events_of(pEvents', bucket_keys', mEvents',
                                 ret'.bucket)
          IN  \E last \in before :
                 /\ \A o \in before : o.timestamp <= last.timestamp
                 /\ after = (before \ {last}) \cup
                       {[id |-> last.id,
                         timestamp |-> ret'.event.timestamp,
                         duration |-> ret'.event.duration,
                         data |-> ret'.event.data]}
                 /\ Cardinality(after) = Cardinality(before)]_vars
\* C7, the case: replace_last returned on a bucket of two events, one of
\* which now carries what the call was given
C7_ReplacedAmongTwo ==
    /\ ret.op = "replace_last" /\ ret.status = "ok"
    /\ Cardinality(BucketEvents(ret.bucket)) >= 2
    /\ \E e \in BucketEvents(ret.bucket) :
          /\ e.timestamp = ret.event.timestamp
          /\ e.duration = ret.event.duration
          /\ e.data = ret.event.data

\* C8: get_events honours limit for every stored event set and range:
\* limit = 0 returns the empty sequence, limit > 0 returns at most limit
\* events, the first limit elements of the result obtained with limit < 0,
\* and limit < 0 returns all matching events, the events of the bucket that
\* pass the overlap test of the range.  (QSpec)
C8_LimitHonoured ==
    GotEvents =>
      LET matching == {x \in BucketEvents(ret.bucket) :
                         Overlaps(x, ret.starttime, ret.endtime)}
      IN  /\ ret.limit = 0 => ret.value = <<>>
          /\ ret.limit > 0 =>
                /\ Len(ret.value) <= ret.limit
                /\ \A u \in Results(ret.bucket, -1, ret.starttime,
                                    ret.endtime) :
                      ret.value = Take(u, ret.limit)
          /\ ret.limit < 0 =>
                /\ Len(ret.value) = Cardinality(matching)
                /\ {ret.value[i].id : i \in 1..Len(ret.value)} =
                      {x.id : x \in matching}
\* C8, what the code keeps of it: limit = 0 returns the empty sequence and
\* limit > 0 returns at most limit events, the first limit elements of one
\* of the results the same query has with limit < 0 (events of equal
\* timestamp come in either order).  (QSpec)
C8_LimitPrefixOfSomeResult ==
    GotEvents =>
      /\ ret.limit = 0 => ret.value = <<>>
      /\ ret.limit > 0 =>
            /\ Len(ret.value) <= ret.limit
            /\ \E u \in Results(ret.bucket, -1, ret.starttime, ret.endtime) :
                  ret.value = Take(u, ret.limit)

\* C9: the sequence get_events returns is ordered by timestamp descending,
\* by the timestamps as returned, after clipping.  (QSpec)
C9_DescendingAfterClipping ==
    GotEvents =>
      \A i \in 1..(Len(ret.value) - 1) :
         ret.value[i].timestamp >= ret.value[i + 1].timestamp
\* C9, the case: two events at different returned timestamps, one of them
\* moved to the start of the range by clipping
C9_ClippedAmongReturned ==
    /\ GotEvents
    /\ \E i, j \in 1..Len(ret.value) :
          /\ ret.value[i].timestamp > ret.value[j].timestamp
          /\ \E e \in BucketEvents(ret.bucket) :
                /\ e.id = ret.value[j].id
                /\ e.timestamp < ret.value[j].timestamp

\* C10: get_eventcount(bucket, start, end) is the number of events
\* get_events(bucket, limit < 0, start, end) returns.  (QSpec)
C10_CountIsLengthOfRange ==
    (ret.op = "get_eventcount" /\ ret.status = "ok") =>
      /\ Results(ret.bucket, -1, ret.starttime, ret.endtime) # {}
      /\ \A u \in Results(ret.bucket, -1, ret.starttime, ret.endtime) :
            ret.value = Len(u)
\* C10, the case: a count over a range that lets through some of the
\* bucket's events and not all
C10_CountedSome ==
    /\ ret.op = "get_eventcount" /\ ret.status = "ok"
    /\ ret.starttime # NoTime
    /\ ret.value >= 1
    /\ ret.value < Cardinality(BucketEvents(ret.bucket))

\* the given event under the id of stored event e
Overwritten(e, event) ==
    [id |-> e.id, timestamp |-> event.timestamp,
     duration |-> event.duration, data |-> event.data]
\* Python's bool() of what delete returns: a row count (peewee) or a bool
bool_of(v) == IF sid = "peewee" THEN v # 0 ELSE v
\* the events of every bucket stay as they are
EventsUnchanged ==
    \A b \in BucketIds :
       events_of(pEvents', bucket_keys', mEvents', b) = BucketEvents(b)

\* C11: replace on an event of the bucket overwrites its timestamp,
\* duration and data and keeps its id; when the bucket holds no event of
\* that id the call fails with an EventNotFound error and the events of
\* every bucket stay as they are.  (Spec)
C11_ReplaceOrEventNotFound ==
    [][(ret'.op = "replace" /\ ret'.bucket \in Registered) =>
          LET b == ret'.bucket
              found == EventNow(b, ret'.event_id)
          IN  IF found # {}
                THEN /\ ret'.status = "ok"
                     /\ \E e \in found :
                           events_of(pEvents', bucket_keys', mEvents', b) =
                              (BucketEvents(b) \ {e})
                                 \cup {Overwritten(e, ret'.event)}
                ELSE /\ ret'.status = "EventNotFound"
                     /\ EventsUnchanged]_vars
\* C11, what the code keeps of it: an event of the bucket is overwritten
\* under its id, and without such an event the call raises, whatever the
\* error, and the events of every bucket stay as they are.  (Spec)
C11_ReplaceOrFailure ==
    [][(ret'.op = "replace" /\ ret'.bucket \in Registered) =>
          LET b == ret'.bucket
              found == EventNow(b, ret'.event_id)
          IN  IF found # {}
                THEN /\ ret'.status = "ok"
                     /\ \E e \in found :
                           events_of(pEvents', bucket_keys', mEvents', b) =
                              (BucketEvents(b) \ {e})
                                 \cup {Overwritten(e, ret'.event)}
                ELSE /\ ret'.status # "ok"
                     /\ EventsUnchanged]_vars

\* C12: replace_last on an existing bucket without events fails, and the
\* bucket is still empty afterwards.  (Spec)
C12_ReplaceLastOnEmptyFails ==
    [][(ret'.op = "replace_last" /\ ret'.bucket \in Registered
           /\ BucketEvents(ret'.bucket) = {}) =>
          /\ ret'.status # "ok"
          /\ events_of(pEvents', bucket_keys', mEvents', ret'.bucket) = {}
          /\ EventsUnchanged]_vars
\* C12, the case: replace_last has failed on a registered bucket that holds
\* no event, while the other bucket holds one
C12_FailedOnEmpty ==
    /\ ret.op = "replace_last" /\ ret.status \in {"DoesNotExist", "IndexError"}
    /\ ret.bucket \in Registered
    /\ BucketEvents(ret.bucket) = {}
    /\ \E b \in Registered : BucketEvents(b) # {}

\* C13: delete removes exactly the event of that id in that bucket and
\* returns a true result if and only if one was removed; when the bucket
\* holds no such event it returns a false result, raises nothing and the
\* stored events stay as they are.  (Spec)
C13_DeleteExactlyThatEvent ==
    [][(ret'.op = "delete" /\ ret'.bucket \in Registered) =>
          LET b == ret'.bucket
              gone == EventNow(b, ret'.event_id)
          IN  /\ ret'.status = "ok"
              /\ bool_of(ret'.value) <=> gone # {}
              /\ events_of(pEvents', bucket_keys', mEvents', b) =
                    BucketEvents(b) \ gone
              /\ \A o \in BucketIds \ {b} :
                    events_of(pEvents', bucket_keys', mEvents', o) =
                       BucketEvents(o)]_vars
\* C13, the case: delete returned a true result and the other event of the
\* bucket is still stored
C13_DeletedOneOfTwo ==
    /\ ret.op = "delete" /\ ret.status = "ok"
    /\ bool_of(ret.value)
    /\ ret.bucket \in Registered
    /\ BucketEvents(ret.bucket) # {}

\* C14: create_bucket with an id that exists fails and leaves the bucket's
\* metadata, its key and its events as they are; at most one bucket exists
\* per id.  A step that leaves the clock alone is a call.  (DirSpec)
C14_DuplicateBucketRefused ==
    /\ [](/\ \A r1, r2 \in pBuckets : r1.id = r2.id => r1 = r2
          /\ \A b \in DOMAIN bucket_keys :
                Cardinality({r \in pBuckets : r.key = bucket_keys[b]}) = 1
          /\ \A b \in DOMAIN mMetadata : mMetadata[b].id = b)
    /\ [][(now' = now /\ ret'.op = "create_bucket"
              /\ ret'.bucket \in Registered) =>
             /\ ret'.status # "ok"
             /\ pBuckets' = pBuckets
             /\ bucket_keys' = bucket_keys
             /\ mMetadata' = mMetadata
             /\ EventsUnchanged]_vars
\* C14, the case: create_bucket was refused for a bucket that holds an event
C14_RefusedOnFilledBucket ==
    /\ ret.op = "create_bucket"
    /\ ret.status \in {"IntegrityError", "DuplicateKeyError"}
    /\ BucketEvents(ret.bucket) # {}

\* C15: every operation addressed to a bucket id that is not registered
\* fails, and stores nothing: no event and no collection.  (Spec)
C15_UnknownBucketRefused ==
    [][(/\ now' = now
        /\ ret'.op \in {"get_event", "get_events", "get_eventcount",
                        "insert_one", "insert_many", "replace",
                        "replace_last", "delete", "get_metadata",
                        "delete_bucket"}
        /\ ret'.bucket \notin Registered) =>
          /\ ret'.status # "ok"
          /\ pEvents' = pEvents
          /\ mEvents' = mEvents
          /\ pBuckets' = pBuckets
          /\ mMetadata' = mMetadata]_vars


\* C16: buckets() is served from a time-boxed cache.  A call made while the
\* time since the last refresh is below the freshness window returns the
\* snapshot built at that refresh; a call made once the window has elapsed
\* re-enumerates the backend, returns exactly the buckets that exist at that
\* moment and resets the cache timestamp.  Hence a bucket whose last
\* creation or deletion lies a freshness window or more in the past is listed
\* if and only if it exists.  (DirSpec)
C16_TimeBoxedList ==
    [][(now' = now /\ ret'.op = "buckets") =>
         /\ ret'.status = "ok"
         /\ IF now - last_cached_ms < CacheWindow
              THEN /\ ret'.value = cached_buckets
                   /\ last_cached_ms' = last_cached_ms
              ELSE /\ DOMAIN ret'.value = Registered
                   /\ last_cached_ms' = now
                   /\ cached_buckets' = ret'.value
         /\ \A b \in DirBucketIds :
              changed_at[b] + CacheWindow <= now =>
                (b \in DOMAIN ret'.value <=> b \in Registered)]_vars

\* C16, what the code keeps of it: every buckets() call returns exactly the
\* buckets that exist at that moment, so a bucket created (deleted) earlier
\* is in (out of) the list whatever the time gone by.  (DirSpec)
C16_ListsWhatExists ==
    [][(now' = now /\ ret'.op = "buckets") =>
         /\ ret'.status = "ok"
         /\ DOMAIN ret'.value = Registered]_vars


\* C17: a create_bucket that went through invalidates the metadata cache.
\* The buckets() call that follows it at once, the freshness window not
\* waited for, lists the bucket with the type, client, hostname and creation
\* date given to create_bucket, and an event call on the bucket that follows
\* it at once finds the bucket.
C17_CreatedBucketListedAtOnce ==
    [][(now' = now /\ ret.op = "create_bucket" /\ ret.status = "ok") =>
         LET b == ret.bucket
         IN  /\ ret'.op = "buckets" =>
                  /\ ret'.status = "ok"
                  /\ b \in DOMAIN ret'.value
                  /\ ret'.value[b].id = b
                  /\ \A f \in {"type", "client", "hostname", "created"} :
                       ret'.value[b][f] = ret.args[f]
             /\ (ret'.op = "insert_one" /\ ret'.bucket = b) =>
                  ret'.status = "ok"]_vars

\* C17 without the creation date
C17_CreatedBucketListedByRefresh ==
    [][(now' = now /\ ret.op = "create_bucket" /\ ret.status = "ok") =>
         LET b == ret.bucket
         IN  /\ ret'.op = "buckets" =>
                  /\ ret'.status = "ok"
                  /\ b \in DOMAIN ret'.value
                  /\ ret'.value[b].id = b
                  /\ \A f \in {"type", "client", "hostname"} :
                       ret'.value[b][f] = ret.args[f]
             /\ (ret'.op = "insert_one" /\ ret'.bucket = b) =>
                  ret'.status = "ok"]_vars


(***************************************************************************)
(* The auxiliary stores: users (both backends) and reports (peewee).       *)
(***************************************************************************)
Emails == {"u1", "u2"}
\* user_data as given to save_user
UserData == [device_id : {"dev"}, name : {"n1", "n2"}, email : Emails,
             access_token : {"at"}, refresh_token : {"rt"}]
\* report_data as given to save_report; date is a day of the time grid
ReportData == [email : Emails, spent_time : {1, 2}, call_time : {0},
               date : {0}, wfh : {FALSE}]

\* datetime.isoformat()
isoformat(t) == <<"iso", t>>

\* UserModel.create
UserModel_create(id, u, t) ==
    [id |-> id, device_id |-> u.device_id, name |-> u.name,
     email |-> u.email, access_token |-> u.access_token,
     refresh_token |-> u.refresh_token, last_used_at |-> t]

\* save_user with the DELETE left out and no unique index on users.email
PeeweeSaveUser_without_delete(user_data) ==
    LET call == [op |-> "save_user", user_data |-> user_data]
        id == pUserSeq + 1
    IN  /\ pUserSeq' = id
        /\ pUsers' = pUsers \cup {UserModel_create(id, user_data, now)}
        /\ Returns(call, user_data @@ [last_used_at |-> isoformat(now)])
        /\ UNCHANGED <<mUsers, mUserOid, pReports, pReportSeq>>

\* PeeweeStorage.save_user: DELETE by email, then INSERT with a new id and
\* last_used_at = now; user_data is returned with last_used_at as a string
PeeweeSaveUser(user_data) ==
    LET call == [op |-> "save_user", user_data |-> user_data]
        id == pUserSeq + 1
        kept == {r \in pUsers : r.email # user_data.email}
    IN  /\ pUserSeq' = id
        /\ pUsers' = kept \cup {UserModel_create(id, user_data, now)}
        /\ Returns(call, user_data @@ [last_used_at |-> isoformat(now)])
        /\ UNCHANGED <<mUsers, mUserOid, pReports, pReportSeq>>

\* MongoDBStorage.save_user: delete_many by email, then insert_one of
\* user_data, which receives its _id in place and is returned
MongoSaveUser(user_data) ==
    LET call == [op |-> "save_user", user_data |-> user_data]
        oid == mUserOid + 1
        doc == user_data @@ [_id |-> oid]
        kept == {d \in mUsers : d.email # user_data.email}
    IN  /\ mUserOid' = oid
        /\ mUsers' = kept \cup {doc}
        /\ Returns(call, doc)
        /\ UNCHANGED <<pUsers, pUserSeq, pReports, pReportSeq>>

SaveUser(user_data) ==
    /\ Constructed
    /\ \/ sid = "peewee" /\ pUserSeq < MaxSaves /\ PeeweeSaveUser(user_data)
       \/ sid = "mongodb" /\ mUserOid < MaxSaves /\ MongoSaveUser(user_data)
    /\ UNCHANGED <<sid, now, pvars, mvars, cvars, changed_at>>

\* PeeweeStorage.get_user: the row of that email as a dict, or the string
\* json.dumps({}) when there is none
PeeweeGetUser(email) ==
    LET call == [op |-> "get_user", email |-> email]
        found == {r \in pUsers : r.email = email}
    IN  /\ IF found = {} THEN Returns(call, "{}")
           ELSE \E r \in found : Returns(call, r)
        /\ UNCHANGED avars

\* MongoDBStorage.get_user: json_util.dumps of find_one(filter)
MongoGetUser(email) ==
    LET call == [op |-> "get_user", email |-> email]
        found == {d \in mUsers : d.email = email}
    IN  /\ IF found = {} THEN Returns(call, "null")
           ELSE \E d \in found : Returns(call, <<"json", d>>)
        /\ UNCHANGED avars

GetUser(email) ==
    /\ Constructed
    /\ \/ sid = "peewee" /\ PeeweeGetUser(email)
       \/ sid = "mongodb" /\ MongoGetUser(email)
    /\ UNCHANGED <<sid, now, pvars, mvars, cvars, changed_at>>

\* PeeweeStorage.save_report: ReportModel.create, nothing else
PeeweeSaveReport(report_data) ==
    LET call == [op |-> "save_report", report_data |-> report_data]
        id == pReportSeq + 1
        row == [id |-> id, email |-> report_data.email,
                spent_time |-> report_data.spent_time,
                call_time |-> report_data.call_time,
                date |-> report_data.date, wfh |-> report_data.wfh]
    IN  /\ pReportSeq' = id
        /\ pReports' = pReports \cup {row}
        /\ Returns(call, report_data)
        /\ UNCHANGED <<pUsers, pUserSeq, mUsers, mUserOid>>

SaveReport(report_data) ==
    /\ Constructed
    /\ sid = "peewee" /\ pReportSeq < MaxSaves
    /\ PeeweeSaveReport(report_data)
    /\ UNCHANGED <<sid, now, pvars, mvars, cvars, changed_at>>

\* PeeweeStorage.get_report: the first row of that email and day, in no
\* stated order, with active_time added; None when there is none
PeeweeGetReport(email, day) ==
    LET call == [op |-> "get_report", email |-> email, day |-> day]
        found == {r \in pReports : r.email = email /\ r.date = day}
    IN  /\ IF found = {} THEN Returns(call, None)
           ELSE \E r \in found :
                  Returns(call, r @@ [active_time |->
                                        r.spent_time + r.call_time])
        /\ UNCHANGED avars

GetReport(email, day) ==
    /\ Constructed
    /\ sid = "peewee" /\ PeeweeGetReport(email, day)
    /\ UNCHANGED <<sid, now, pvars, mvars, cvars, changed_at>>

(***************************************************************************)
(* AuxSpec: one caller saves and reads users and reports.                  *)
(***************************************************************************)
ANext ==
    \/ \E u \in UserData : SaveUser(u)
    \/ \E e \in Emails : GetUser(e)
    \/ \E r \in ReportData : SaveReport(r)
    \/ \E e \in Emails : GetReport(e, 0)

AuxSpec == Init /\ [][ANext]_vars

\* the user records stored, and those stored under one email
UserRecords == IF sid = "peewee" THEN pUsers ELSE mUsers
UsersOf(records, email) == {r \in records : r.email = email}
\* whether a stored record holds the fields given to save_user
HoldsUserData(r, user_data) ==
    \A f \in {"device_id", "name", "email", "access_token", "refresh_token"} :
        r[f] = user_data[f]

\* C18: after any sequence of save_user calls there is at most one user
\* record per email, and a save_user call leaves exactly one record under
\* its email, holding the field values of that call, whatever was stored
\* under the email before; the records of the other emails stay as they are.
C18_SaveUserReplaces ==
    /\ [](\A e \in Emails : Cardinality(UsersOf(UserRecords, e)) <= 1)
    /\ [][ret'.op = "save_user" =>
            LET u == ret'.user_data
                new == IF sid = "peewee" THEN pUsers' ELSE mUsers'
            IN  /\ ret'.status = "ok"
                /\ Cardinality(UsersOf(new, u.email)) = 1
                /\ \A r \in UsersOf(new, u.email) : HoldsUserData(r, u)
                /\ \A e \in Emails \ {u.email} :
                     UsersOf(new, e) = UsersOf(UserRecords, e)]_vars

\* a second save_user under one email, with another name than the first, has
\* left one record
C18_SavedTwice ==
    /\ ret.op = "save_user" /\ ret.status = "ok"
    /\ IF sid = "peewee" THEN pUserSeq = 2 ELSE mUserOid = 2
    /\ Cardinality(UserRecords) = 1
    /\ ret.user_data.name = "n2"
    /\ \A r \in UserRecords : r.name = "n2"


\* the report records stored under one natural key (email and day)
ReportsOf(records, email, day) ==
    {r \in records : r.email = email /\ r.date = day}

\* C19: save_report is a full replace, so that after any sequence of
\* save_report calls at most one report record exists per key (email and
\* day).
C19_OneReportPerKey ==
    \A e \in Emails : Cardinality(ReportsOf(pReports, e, 0)) <= 1

\* C19, the single call: a save_report that went through leaves one record
\* under its key, holding the values of that call.
C19_SaveReportReplaces ==
    [][(ret'.op = "save_report" /\ ret'.status = "ok") =>
         LET d == ret'.report_data
             under == ReportsOf(pReports', d.email, d.date)
         IN  /\ Cardinality(under) = 1
             /\ \A r \in under : r.spent_time = d.spent_time]_vars

\* what the peewee backend does keep: every save_report adds one row
C19_SaveReportAppends ==
    [][(ret'.op = "save_report" /\ sid = "peewee") =>
         /\ ret'.status = "ok"
         /\ Cardinality(pReports') = Cardinality(pReports) + 1
         /\ pReports \subseteq pReports']_vars


(***************************************************************************)
(* ManySpec: insert_many with lists that cannot be stored as a whole.  One *)
(* caller creates buckets, inserts events and gives insert_many lists of   *)
(* which an event carries a payload json.dumps cannot encode; those lists  *)
(* go to the peewee backend, whose insert_many encodes the payloads.       *)
(***************************************************************************)
BadBatchEvents == {[e EXCEPT !.data = Unserializable] : e \in BatchEvents}
\* the lists with one such event, at any place
FailBatches ==
    {es \in UNION {[1..n -> BatchEvents \cup BadBatchEvents] :
                     n \in 1..MaxBatch} :
        Cardinality({i \in 1..Len(es) : ~serializable(es[i].data)}) = 1}

ManyNext ==
    \/ \E b \in BucketIds \ Registered, a \in BucketArgs : CreateBucket(b, a)
    \/ \E b \in Registered, e \in NewWEvents : InsertOne(b, e)
    \/ \E b \in Registered, es \in FailBatches :
         sid = "peewee" /\ InsertMany(b, es)

ManySpec == Init /\ [][ManyNext]_vars

\* C20: insert_many never applies partially.  When an insert_many call
\* fails, none of its events remains stored: the events of every bucket
\* after the failed call are its events before the call.
C20_FailedInsertManyStoresNothing ==
    [][(ret'.op = "insert_many" /\ ret'.status # "ok") =>
         EventsUnchanged]_vars

\* what insert_many does keep when it fails: no event is added, and the
\* events of the other buckets that are not named by an update stay
C20_FailedInsertManyAddsNothing ==
    [][(ret'.op = "insert_many" /\ ret'.status # "ok") =>
         /\ pEventSeq' = pEventSeq
         /\ {r.id : r \in pEvents'} = {r.id : r \in pEvents}
         /\ \A r \in pEvents :
              (\A i \in 1..Len(ret'.events) : ret'.events[i].id # r.id)
                => r \in pEvents']_vars


\* C22: every event returned by get_events has a duration >= 0, whatever
\* events of non-negative duration are stored and whatever the bounds of the
\* query are, a starttime later than the endtime included.
C22_ReturnedDurationsNonNegative ==
    GotEvents =>
      \A i \in 1..Len(ret.value) : ret.value[i].duration >= 0

\* C22 for the queries whose bounds are in order or absent
C22_NonNegativeWithinOrderedBounds ==
    (GotEvents /\ (ret.starttime = NoTime \/ ret.endtime = NoTime
                   \/ ret.starttime <= ret.endtime)) =>
      \A i \in 1..Len(ret.value) : ret.value[i].duration >= 0


(***************************************************************************)
(* NegSpec: the writing calls are given events of negative duration, next  *)
(* to the ordinary ones.                                                   *)
(***************************************************************************)
\* Event(timestamp, duration=timedelta(days=-1), data): the storages read
\* the duration with total_seconds() and take what it gives
NegEvents == {[e EXCEPT !.duration = -86400] : e \in ReplaceEvents}

NegNext ==
    \/ \E b \in BucketIds \ Registered, a \in BucketArgs : CreateBucket(b, a)
    \/ \E b \in Registered, e \in NewWEvents \cup NegEvents : InsertOne(b, e)
    \/ \E b \in Registered, e \in NegEvents : InsertMany(b, <<e>>)
    \/ \E b \in Registered, e \in NegEvents : ReplaceLast(b, e)
    \/ \E b \in Registered, i \in EventIds, e \in NegEvents : Replace(b, i, e)

NegSpec == Init /\ [][NegNext]_vars

\* the events a writing call was given
GivenEvents(r) ==
    IF r.op = "insert_many" THEN {r.events[i] : i \in 1..Len(r.events)}
    ELSE IF r.op \in {"insert_one", "replace", "replace_last"} THEN {r.event}
    ELSE {}

\* C23: in every reachable state every stored event has duration >= 0.
C23_StoredDurationsNonNegative ==
    \A b \in BucketIds : \A e \in BucketEvents(b) : e.duration >= 0

\* C23, the single call: insert_one, insert_many, replace and replace_last
\* reject an event of negative duration with a ValidationError and leave the
\* store unchanged.
C23_NegativeDurationRejected ==
    [][(\E e \in GivenEvents(ret') : e.duration < 0) =>
         ret'.status = "ValidationError" /\ EventsUnchanged]_vars

\* what the writing calls do with an event of negative duration given for
\* an existing bucket: insert_one and insert_many store it as it is
C23_NegativeDurationStored ==
    [][(ret'.op \in {"insert_one", "insert_many"}
        /\ \E e \in GivenEvents(ret') : e.duration < 0) =>
         /\ ret'.status = "ok"
         /\ \E e \in events_of(pEvents', bucket_keys', mEvents', ret'.bucket) :
              e.duration < 0]_vars


\* the event calls that write
WritingOps == {"insert_one", "insert_many", "replace", "replace_last",
               "delete"}

\* C24: buckets are isolated.  No writing event call addressed to a bucket,
\* whatever event it is given, an event that carries the id of an event of
\* another bucket included, changes the events of any other bucket: their
\* set, timestamps, durations, data and owning bucket stay.
C24_OtherBucketsUntouched ==
    [][ret'.op \in WritingOps =>
         \A o \in BucketIds \ {ret'.bucket} :
            events_of(pEvents', bucket_keys', mEvents', o) = BucketEvents(o)]_vars

\* C24 for the calls that are given no event carrying an id
C24_OtherBucketsUntouchedByNewEvents ==
    [][(ret'.op \in WritingOps
        /\ \A e \in GivenEvents(ret') : e.id = NoId) =>
         \A o \in BucketIds \ {ret'.bucket} :
            events_of(pEvents', bucket_keys', mEvents', o) = BucketEvents(o)]_vars


(***************************************************************************)
(* DelSpec: the calls of PeeweeStorage statement by statement, for two     *)
(* callers of one storage.  No call takes a lock or opens a transaction,   *)
(* and self.bucket_keys is a dict of the process: between a caller's read  *)
(* of self.bucket_keys[bucket_id] and the statement it builds with the     *)
(* key, and between any two of its statements, the other caller may run a  *)
(* step of its own call.                                                   *)
(***************************************************************************)
\* the INSERTs the callers under way will still send
PendingInserts == Cardinality({c \in Callers : pc[c] \in {"insert", "chunk"}})

\* create_bucket, first statement: BucketModel.create(...), the INSERT (the
\* serial advances even when the unique index on id refuses the row)
CreateRow(c, b, a) ==
    LET call == [op |-> "create_bucket", bucket |-> b, args |-> a]
        key == pBucketSeq + 1
        row == [key |-> key, id |-> b, created |-> a.created, name |-> a.name,
                type |-> a.type, client |-> a.client, hostname |-> a.hostname]
    IN  /\ pc[c] = "idle"
        /\ Constructed
        /\ sid = "peewee"
        /\ pBucketSeq < MaxRows
        /\ pBucketSeq' = key
        /\ IF \E r \in pBuckets : r.id = b
             THEN /\ Raises(call, "IntegrityError")
                  /\ UNCHANGED <<pBuckets, cvars>>
             ELSE /\ pBuckets' = pBuckets \cup {row}
                  /\ pc' = [pc EXCEPT ![c] = "keys"]
                  /\ fetched' = [fetched EXCEPT ![c] = call]
                  /\ UNCHANGED ret
        /\ UNCHANGED <<sid, now, pEvents, bucket_keys, pEventSeq, mvars, avars,
                       changed_at>>

\* insert_one: e = EventModel.from_event(self.bucket_keys[bucket_id], event)
InsertOneKey(c, b, event) ==
    /\ pc[c] = "idle"
    /\ Constructed
    /\ sid = "peewee"
    /\ pEventSeq + PendingInserts < MaxEvents
    /\ ReadKey(c, [op |-> "insert_one", bucket |-> b, event |-> event],
               "insert")
    /\ UNCHANGED <<sid, now, pvars, mvars, avars, changed_at>>

\* insert_one: e.save(); event.id = e.id; return event.  The foreign key of
\* EventModel.bucket refuses a key that no bucket row has, and the refused
\* INSERT has taken its value of the serial
InsertOneSave(c) ==
    LET f == fetched[c]
    IN  /\ pc[c] = "insert"
        /\ Constructed
        /\ sid = "peewee"
        /\ pEventSeq' = insert_one_seq(pEventSeq, f.event)
        /\ IF fk_refuses(pBuckets, pEvents, f.key, f.event)
             THEN /\ Raises(CallOf(f), "IntegrityError")
                  /\ UNCHANGED pEvents
             ELSE /\ pEvents' = insert_one_rows(pEvents, pEventSeq, f.key,
                                                f.event)
                  /\ Returns(CallOf(f), insert_one_value(pEventSeq, f.event))
        /\ Leave(c)
        /\ UNCHANGED <<sid, now, pBuckets, bucket_keys, pBucketSeq, mvars,
                       avars, changed_at>>

\* insert_many(bucket_id, [event]) with an event without id: no update to
\* apply; the list of dicts is built, which reads
\* self.bucket_keys[bucket_id] for the event
InsertManyKey(c, b, event) ==
    /\ pc[c] = "idle"
    /\ Constructed
    /\ sid = "peewee"
    /\ event.id = NoId
    /\ pEventSeq + PendingInserts < MaxEvents
    /\ ReadKey(c, [op |-> "insert_many", bucket |-> b, events |-> <<event>>],
               "chunk")
    /\ UNCHANGED <<sid, now, pvars, mvars, avars, changed_at>>

\* insert_many: EventModel.insert_many(chunk).execute() for the one chunk
InsertManyChunk(c) ==
    LET f == fetched[c]
    IN  /\ pc[c] = "chunk"
        /\ Constructed
        /\ sid = "peewee"
        /\ pEventSeq' = pEventSeq + Len(f.events)
        /\ IF \A r \in pBuckets : r.key # f.key
             THEN /\ Raises(CallOf(f), "IntegrityError")
                  /\ UNCHANGED pEvents
             ELSE /\ pEvents' = insert_chunk(pEvents, pEventSeq, f.key,
                                             f.events)
                  /\ Done(CallOf(f))
        /\ Leave(c)
        /\ UNCHANGED <<sid, now, pBuckets, bucket_keys, pBucketSeq, mvars,
                       avars, changed_at>>

\* delete_bucket: if bucket_id in self.bucket_keys.  History, for C25: had
\* keeps the keys of the bucket rows of that id at this moment
TestBucket(c, b) ==
    /\ pc[c] = "idle"
    /\ Constructed
    /\ sid = "peewee"
    /\ IF b \in DOMAIN bucket_keys
         THEN /\ pc' = [pc EXCEPT ![c] = "events_key"]
              /\ fetched' = [fetched EXCEPT ![c] =
                               [op |-> "delete_bucket", bucket |-> b,
                                had |-> {r.key : r \in {x \in pBuckets :
                                                          x.id = b}}]]
              /\ UNCHANGED ret
         ELSE /\ Raises([op |-> "delete_bucket", bucket |-> b], "Exception")
              /\ UNCHANGED cvars
    /\ UNCHANGED <<sid, now, pvars, mvars, avars, changed_at>>

\* delete_bucket: EventModel.delete().where(EventModel.bucket ==
\* self.bucket_keys[bucket_id]), the statement being built
EventsKey(c) ==
    /\ pc[c] = "events_key"
    /\ Constructed
    /\ sid = "peewee"
    /\ ReadKey(c, fetched[c], "events")
    /\ UNCHANGED <<sid, now, pvars, mvars, avars, changed_at>>

\* delete_bucket: .execute() of the DELETE on the events
DeleteEvents(c) ==
    /\ pc[c] = "events"
    /\ Constructed
    /\ sid = "peewee"
    /\ pEvents' = pEvents \ RowsOf(pEvents, fetched[c].key)
    /\ pc' = [pc EXCEPT ![c] = "row_key"]
    /\ UNCHANGED <<sid, ret, now, fetched, pBuckets, bucket_keys, pBucketSeq,
                   pEventSeq, mvars, avars, changed_at>>

\* delete_bucket: BucketModel.delete().where(BucketModel.key ==
\* self.bucket_keys[bucket_id]), the statement being built: the map is read
\* once more
RowKey(c) ==
    /\ pc[c] = "row_key"
    /\ Constructed
    /\ sid = "peewee"
    /\ ReadKey(c, fetched[c], "drop")
    /\ UNCHANGED <<sid, now, pvars, mvars, avars, changed_at>>

\* delete_bucket: .execute() of the DELETE on the buckets; the foreign key
\* of EventModel.bucket refuses the deletion of a referenced bucket row, and
\* a key that no row has deletes nothing
DeleteRow(c) ==
    /\ pc[c] = "drop"
    /\ Constructed
    /\ sid = "peewee"
    /\ IF RowsOf(pEvents, fetched[c].key) # {}
         THEN /\ Raises(CallOf(fetched[c]), "IntegrityError")
              /\ Leave(c)
              /\ UNCHANGED pBuckets
         ELSE /\ pBuckets' = {r \in pBuckets : r.key # fetched[c].key}
              /\ pc' = [pc EXCEPT ![c] = "keys"]
              /\ UNCHANGED <<ret, fetched>>
    /\ UNCHANGED <<sid, now, pEvents, bucket_keys, pBucketSeq, pEventSeq,
                   mvars, avars, changed_at>>

\* update_bucket_keys at the end of create_bucket and of delete_bucket,
\* first statement: buckets = BucketModel.select(), the rows as they are
\* when the SELECT is answered
SelectBuckets(c) ==
    /\ pc[c] = "keys"
    /\ Constructed
    /\ sid = "peewee"
    /\ fetched' = [fetched EXCEPT ![c] =
                     [buckets |-> update_bucket_keys(pBuckets)] @@ fetched[c]]
    /\ pc' = [pc EXCEPT ![c] = "assign"]
    /\ UNCHANGED <<sid, ret, now, pvars, mvars, avars, changed_at>>

\* update_bucket_keys called by a caller of the storage, first statement:
\* the SELECT
UpdateBucketKeys(c) ==
    /\ pc[c] = "idle"
    /\ Constructed
    /\ sid = "peewee"
    /\ fetched' = [fetched EXCEPT ![c] =
                     [op |-> "update_bucket_keys",
                      buckets |-> update_bucket_keys(pBuckets)]]
    /\ pc' = [pc EXCEPT ![c] = "assign"]
    /\ UNCHANGED <<sid, ret, now, pvars, mvars, avars, changed_at>>

\* update_bucket_keys, second statement: self.bucket_keys = {bucket.id:
\* bucket.key for bucket in buckets}, the rows being those the SELECT gave;
\* the call that ran it returns
AssignKeys(c) ==
    /\ pc[c] = "assign"
    /\ Constructed
    /\ sid = "peewee"
    /\ bucket_keys' = fetched[c].buckets
    /\ Done(CallOf(fetched[c]))
    /\ Leave(c)
    /\ UNCHANGED <<sid, now, pBuckets, pEvents, pBucketSeq, pEventSeq, mvars,
                   avars, changed_at>>

XNext ==
    \/ \E c \in Callers, b \in BucketIds, a \in BucketArgs : CreateRow(c, b, a)
    \/ \E c \in Callers, b \in BucketIds, e \in FillEvents :
          InsertOneKey(c, b, e)
    \/ \E c \in Callers : InsertOneSave(c)
    \/ \E c \in Callers, b \in BucketIds, e \in FillEvents :
          InsertManyKey(c, b, e)
    \/ \E c \in Callers : InsertManyChunk(c)
    \/ \E c \in Callers, b \in BucketIds, e \in ReplaceEvents :
          LastKey(c, b, e)
    \/ \E c \in Callers : SelectLast(c)
    \/ \E c \in Callers : SaveLast(c)
    \/ \E c \in Callers, b \in BucketIds : TestBucket(c, b)
    \/ \E c \in Callers : EventsKey(c)
    \/ \E c \in Callers : DeleteEvents(c)
    \/ \E c \in Callers : RowKey(c)
    \/ \E c \in Callers : DeleteRow(c)
    \/ \E c \in Callers : SelectBuckets(c)
    \/ \E c \in Callers : UpdateBucketKeys(c)
    \/ \E c \in Callers : AssignKeys(c)

DelSpec == Init /\ [][XNext]_vars

\* C25: no stored event ever references a bucket that does not exist, in
\* every interleaving of the statements of delete_bucket with the
\* statements of the other caller's calls on the same bucket; and a
\* delete_bucket that has completed leaves neither the bucket it was called
\* on (the rows of that id there were when it began) nor any of its
\* events.  (DelSpec)
C25_NoOrphanEvents ==
    /\ [](Orphans = {})
    /\ [][\A c \in Callers :
            (pc[c] = "assign" /\ pc'[c] = "idle"
             /\ fetched[c].op = "delete_bucket") =>
               /\ \A r \in pBuckets' : r.key \notin fetched[c].had
               /\ \A e \in pEvents' : e.bucket \notin fetched[c].had]_vars

\* C25, the part the foreign key of EventModel.bucket gives: no stored event
\* references a bucket row that does not exist
C25_NoEventWithoutBucket == Orphans = {}


(***************************************************************************)
(* The two backends side by side                                           *)
(***************************************************************************)
\* the classes a storage is constructed from
Backends == {"peewee", "mongodb"}

\* C21: a PeeweeStorage and a MongoDBStorage given the same calls answer
\* alike: every call, the construction of the storage first of all,
\* succeeds or fails on one as it does on the other.  (Spec)
C21_BackendsAgree ==
    ret.op = "init" => \A s \in Backends : ret.status = construct(s)

====
